---- MODULE Spec2Model ----
(***************************************************************************)
(* Model of the MCP protocol gateway of mcp-cdk-lambda-cognito:            *)
(*   handlers/api-gateway-handler.ts  createApiGatewayHandler              *)
(*   mcp/request-handler.ts           handleMcpRequest                     *)
(*   servers/dog-facts/server.ts      DogFactsServer                       *)
(* One Lambda instance serves one invocation at a time.  An invocation is  *)
(* split at the places where the handler awaits.                           *)
(***************************************************************************)
EXTENDS Integers, Sequences, FiniteSets, TLC

VARIABLES
  server,        \* the IMCPServer injected into createApiGatewayHandler
  pc,            \* position of the handler: idle, loop, await, done
  event,         \* the inbound API Gateway event of the current invocation
  parsedBody,    \* JSON.parse(event.body)
  requests,      \* Array.isArray(parsedBody) ? parsedBody : [parsedBody]
  idx,           \* position of the for-of loop in requests (1-based)
  responses,     \* the collected response envelopes
  calls,         \* provider operations invoked during this invocation
  fetches,       \* limits of the upstream requests sent by DogFactsServer
  httpResponse,  \* the APIGatewayProxyResult returned by the handler
  served,        \* invocations this instance has completed
  answers,       \* what the provider answered for each request handled
  toolsSeen,     \* the results tools/list has returned on this instance
  upstream       \* what the upstream API answered to each request sent

vars == <<server, pc, event, parsedBody, requests, idx, responses, calls,
          fetches, httpResponse, served, answers, toolsSeen,
          upstream>>

(***************************************************************************)
(* Bounds                                                                  *)
(***************************************************************************)
MaxBatch == 2     \* longest JSON array sent as a batch
MaxFacts == 1     \* most facts the upstream API answers with
MaxServed == 1    \* invocations followed by a further one

(***************************************************************************)
(* JSON values.  A value is a record tagged by t; an object carries a      *)
(* function from its keys to values, so an absent key is absent from the   *)
(* DOMAIN.  Undefined is what a JavaScript read of an absent key yields.   *)
(***************************************************************************)
Null == [t |-> "null"]
Undefined == [t |-> "undefined"]
Num(n) == [t |-> "num", v |-> n]
Str(s) == [t |-> "str", v |-> s]
Bool(b) == [t |-> "bool", v |-> b]
Arr(s) == [t |-> "arr", v |-> s]
Obj(f) == [t |-> "obj", v |-> f]
\* a value JSON.stringify throws on (a BigInt)
BigInt == [t |-> "bigint"]

Get(o, k) == IF o.t = "obj" /\ k \in DOMAIN o.v THEN o.v[k] ELSE Undefined
Has(o, k) == o.t = "obj" /\ k \in DOMAIN o.v

\* ErrorCode of @modelcontextprotocol/sdk (the JSON-RPC 2.0 codes)
ParseError == 0 - 32700
InvalidRequest == 0 - 32600
InternalError == 0 - 32603

(***************************************************************************)
(* JSON text.  A text is a sequence of tokens: brackets, commas, atoms     *)
(* (the text of one non-array value) and a token no JSON text contains.    *)
(***************************************************************************)
LB == [p |-> "["]
RB == [p |-> "]"]
Comma == [p |-> ","]
Garbage == [p |-> "{bad"]
Atom(v) == [a |-> v]
IsAtom(tok) == "a" \in DOMAIN tok

RECURSIVE CanStringify(_)
CanStringify(v) ==
  CASE v.t = "bigint" -> FALSE
    [] v.t = "arr" -> \A i \in 1..Len(v.v) : CanStringify(v.v[i])
    [] v.t = "obj" -> \A k \in DOMAIN v.v : CanStringify(v.v[k])
    [] OTHER -> TRUE

RECURSIVE StringifyJoin(_, _)
RECURSIVE JSONstringify(_)
\* JSON.stringify of a value it does not throw on
JSONstringify(v) ==
  IF v.t = "arr" THEN <<LB>> \o StringifyJoin(v.v, 1) \o <<RB>>
  ELSE <<Atom(v)>>
StringifyJoin(s, i) ==
  IF i > Len(s) THEN <<>>
  ELSE (IF i > 1 THEN <<Comma>> ELSE <<>>) \o JSONstringify(s[i])
       \o StringifyJoin(s, i + 1)

\* JSON.parse by recursive descent.  ParseValue reads one value at position
\* i and answers [ok, v, next]; ParseItems reads the items of an array after
\* its "[" (first = no item read yet).
ParseFail == [ok |-> FALSE, v |-> Undefined, next |-> 0]
RECURSIVE ParseValue(_, _)
RECURSIVE ParseItems(_, _, _, _)
ParseValue(text, i) ==
  IF i > Len(text) THEN ParseFail
  ELSE IF IsAtom(text[i]) THEN [ok |-> TRUE, v |-> text[i].a, next |-> i + 1]
  ELSE IF text[i] = LB THEN ParseItems(text, i + 1, <<>>, TRUE)
  ELSE ParseFail
ParseItems(text, i, acc, first) ==
  IF i > Len(text) THEN ParseFail
  ELSE IF text[i] = RB
    THEN [ok |-> TRUE, v |-> Arr(acc), next |-> i + 1]
  ELSE IF first
    THEN LET r == ParseValue(text, i) IN
         IF r.ok THEN ParseItems(text, r.next, Append(acc, r.v), FALSE)
         ELSE ParseFail
  ELSE IF text[i] = Comma
    THEN LET r == ParseValue(text, i + 1) IN
         IF r.ok THEN ParseItems(text, r.next, Append(acc, r.v), FALSE)
         ELSE ParseFail
  ELSE ParseFail
\* a parser that stops after the first value and ignores what follows it
JSONparse_Prefix(text) == ParseValue(text, 1)

\* JSON.parse(text): fails unless exactly one value spans the whole text
JSONparse(text) ==
  LET r == ParseValue(text, 1) IN
  IF r.ok /\ r.next = Len(text) + 1 THEN r ELSE ParseFail
(***************************************************************************)
(* Strings that are searched: a string is a sequence of segments and       *)
(* String.prototype.includes is a search for a contiguous run of segments. *)
(***************************************************************************)
Includes(s, sub) ==
  \E i \in 1..(Len(s) + 1) :
    /\ i + Len(sub) - 1 <= Len(s)
    /\ SubSeq(s, i, i + Len(sub) - 1) = sub

ApplicationJson == <<"application/json">>

(***************************************************************************)
(* Inbound events                                                          *)
(***************************************************************************)
HttpMethods == {"OPTIONS", "GET", "POST", "PUT", "DELETE"}

HeaderValues ==
  { <<>>,
    <<"application/json">>,
    <<"application/json", "; charset=utf-8">>,
    <<"text/plain">> }
HeaderKeys == {"content-type", "Content-Type"}
\* event.headers: the keys present and their values (a null header map
\* reads like the empty one through ?.)
HeaderMaps == UNION { [K -> HeaderValues] : K \in SUBSET HeaderKeys }

\* parts of request elements
RequestIds == {Undefined, Null, Num(1), Str("a"), Bool(TRUE)}
RequestMethods ==
  {Undefined, Num(42), Str("initialize"), Str("tools/list"),
   Str("tools/call"), Str("ping")}
RequestVersions == {Undefined, Str("2.0")}
GetDogFactsParams ==
  Obj([name |-> Str("getDogFacts"), arguments |-> Obj([limit |-> Num(3)])])
UnknownToolParams == Obj([name |-> Str("doesNotExist")])
\* the limits asked for besides 3: negative, zero, the ends of the declared
\* range, above it
OtherLimits == {0 - 1, 0, 1, 10, 11, 100}
LimitParams ==
  {Obj([name |-> Str("getDogFacts")])}
  \cup { Obj([name |-> Str("getDogFacts"),
              arguments |-> Obj([limit |-> Num(n)])]) : n \in OtherLimits }
RequestParams == {Undefined, GetDogFactsParams, UnknownToolParams}

\* the object literal with the given members; an Undefined member is absent
Members(j, i, m, p) ==
  LET all == [jsonrpc |-> j, id |-> i, method |-> m, params |-> p]
      keys == {k \in DOMAIN all : all[k] # Undefined}
  IN Obj([k \in keys |-> all[k]])

SingleElements ==
  { Members(j, i, m, p) : j \in RequestVersions, i \in RequestIds,
                          m \in RequestMethods, p \in RequestParams }
  \cup { Members(Str("2.0"), Num(1), Str("tools/call"), p) : p \in LimitParams }
  \cup {Null, Num(42)}

\* the elements batches are built from
BatchElements ==
  { Members(Str("2.0"), Str("a"), Str("tools/call"), GetDogFactsParams),
    Members(Str("2.0"), Num(1), Str("tools/call"), UnknownToolParams),
    Members(Str("2.0"), Str("a"), Str("ping"), Undefined),
    Members(Str("2.0"), Str("a"), Str("tools/list"), Undefined),
    Members(Str("2.0"), Null, Str("tools/list"), Undefined),
    Members(Str("2.0"), Undefined, Str("initialize"), Undefined),
    Members(Str("2.0"), Num(1), Num(42), Undefined) }

Batches == UNION { [1..n -> BatchElements] : n \in 0..MaxBatch }

\* texts that are not JSON
MalformedTexts ==
  { <<Garbage>>, <<LB>>, <<LB, Atom(Null), Comma, RB>>,
    <<Atom(Null), Atom(Null)>>, <<RB>> }

BodyTexts ==
  { JSONstringify(v) : v \in SingleElements }
  \cup { JSONstringify(Arr(b)) : b \in Batches }
  \cup { JSONstringify(Arr(<<Arr(<<>>)>>)) }
  \cup MalformedTexts
  \cup { <<>> }

Bodies == {Null} \cup { Str(text) : text \in BodyTexts }

\* the bodies every verb and every header map is tried with: none, an empty
\* one, one that is not JSON, a tools/call envelope, a batch
ProbeBodies ==
  { Null, Str(<<>>), Str(<<Garbage>>),
    Str(JSONstringify(Members(Str("2.0"), Str("a"), Str("tools/call"),
                              GetDogFactsParams))),
    Str(JSONstringify(Arr(<<Members(Str("2.0"), Num(1), Str("initialize"),
                                    Undefined)>>))) }

\* the header maps every single value and every malformed text is posted
\* with
JsonHeaderMaps ==
  { [k \in {"content-type"} |-> <<"application/json">>],
    [k \in {"Content-Type"} |-> <<"application/json", "; charset=utf-8">>] }

\* the bodies that are batches, posted with one header map
BatchBodies == { Str(JSONstringify(Arr(b))) : b \in Batches }
BatchHeaderMaps == { [k \in {"content-type"} |-> <<"application/json">>] }

Events ==
  [httpMethod : {"POST"}, headers : JsonHeaderMaps,
   body : Bodies \ BatchBodies]
  \cup [httpMethod : {"POST"}, headers : BatchHeaderMaps, body : BatchBodies]
  \cup [httpMethod : HttpMethods, headers : HeaderMaps, body : ProbeBodies]

NoEvent == [httpMethod |-> "", headers |-> <<>>, body |-> Null]
NoResponse == [statusCode |-> 0, headers |-> <<>>, body |-> <<>>]
(***************************************************************************)
(* Capability providers (IMCPServer).  An operation ends in an outcome:    *)
(* a returned value or a thrown (rejected) value.  A thrown value is an    *)
(* Error with a message, or a non-Error value; printable says whether      *)
(* converting it to a string succeeds.                                     *)
(***************************************************************************)
Returned(v) == [k |-> "return", v |-> v]
Thrown(e) == [k |-> "throw", e |-> e]
Err(msg) == [isError |-> TRUE, message |-> msg, printable |-> TRUE]
NonError == [isError |-> FALSE, message |-> "", printable |-> TRUE]
Unprintable == [isError |-> FALSE, message |-> "", printable |-> FALSE]
\* a thrown string: not an Error, and its text is what message holds here
ThrownText(text) == [isError |-> FALSE, message |-> text, printable |-> TRUE]

\* the entry of answers for a request no provider operation was invoked for
NoAnswer == [k |-> "none"]

\* DogFactsServer is the deployed provider; StubServer is any provider that
\* answers with JSON values or fails; RogueServer answers outside that.
Servers == {"DogFactsServer", "StubServer"}
AnyServers == Servers \cup {"RogueServer"}

StubFailures ==
  {Thrown(Err("stub failed")), Thrown(Err("")), Thrown(NonError),
   Thrown(ThrownText("quota exceeded"))}
StubOutcomes(v) == {Returned(v)} \cup StubFailures
RogueOutcomes == {Returned(Obj([big |-> BigInt])), Thrown(Unprintable)}

InitializeResult ==
  Obj([protocolVersion |-> Str("2024-11-05"),
       capabilities |-> Obj([tools |-> Obj(<<>>)]),
       serverInfo |-> Obj([name |-> Str("dog-facts-server"),
                           version |-> Str("1.0.0")])])

ToolsListResult ==
  Obj([tools |-> Arr(<<
    Obj([name |-> Str("getDogFacts"),
         description |-> Str("Get random facts about dogs"),
         inputSchema |-> Obj([
           type |-> Str("object"),
           properties |-> Obj([limit |-> Obj([
             type |-> Str("number"),
             description |->
               Str("Maximum number of facts to return (default: 5, max: 10)"),
             minimum |-> Num(1),
             maximum |-> Num(10),
             default |-> Num(5)])]),
           additionalProperties |-> Bool(FALSE)])]) >>)])

\* server.initialize()
initialize(srv) ==
  CASE srv = "DogFactsServer" -> {Returned(InitializeResult)}
    [] srv = "StubServer" -> StubOutcomes(Obj([protocolVersion |-> Str("stub")]))
    [] OTHER -> RogueOutcomes

\* a provider that lists its tool once and nothing afterwards
listTools_OnlyOnce(srv) ==
  CASE srv = "DogFactsServer" ->
         {Returned(IF toolsSeen = {} THEN ToolsListResult
                   ELSE Obj([tools |-> Arr(<<>>)]))}
    [] srv = "StubServer" -> StubOutcomes(Obj([tools |-> Arr(<<>>)]))
    [] OTHER -> RogueOutcomes

\* server.listTools()
listTools(srv) ==
  CASE srv = "DogFactsServer" -> {Returned(ToolsListResult)}
    [] srv = "StubServer" -> StubOutcomes(Obj([tools |-> Arr(<<>>)]))
    [] OTHER -> RogueOutcomes

Min(a, b) == IF a < b THEN a ELSE b
Max(a, b) == IF a > b THEN a ELSE b

\* args?.limit
RequestedLimit(params) ==
  LET args == Get(params, "arguments") IN
  IF args.t = "obj" THEN Get(args, "limit") ELSE Undefined

\* a limit with a floor and no ceiling
ClampLimit_NoUpper(limit) ==
  LET orFive == IF limit.t = "num" /\ limit.v # 0 THEN limit.v ELSE 5
  IN Max(orFive, 1)

\* Math.min(Math.max((args?.limit as number) || 5, 1), 10), limit a number
\* or absent; 0 is falsy
ClampLimit(limit) ==
  LET orFive == IF limit.t = "num" /\ limit.v # 0 THEN limit.v ELSE 5
  IN Min(Max(orFive, 1), 10)

\* a text that says "are ... facts" for one fact as well
FactsText_AlwaysPlural(n) ==
  "Here are " \o ToString(n) \o " dog facts:"

\* the text of the content block for n facts
FactsText(n) ==
  "Here " \o (IF n = 1 THEN "is" ELSE "are") \o " " \o ToString(n)
  \o " dog fact" \o (IF n = 1 THEN "" ELSE "s") \o ":"

\* what the upstream API does with a request: the network fails, it answers
\* with a status that is not OK, with a body that is not JSON, with JSON
\* that has no data array, or with n facts
UpstreamAnswers ==
  {[k |-> "network"], [k |-> "notOk", status |-> "500"],
   [k |-> "notOk", status |-> "404"], [k |-> "notJson"], [k |-> "noData"]}
  \cup {[k |-> "facts", n |-> n] : n \in 0..MaxFacts}

\* the rest of DogFactsServer.callTool("getDogFacts") after fetch settles
AfterFetch(answer) ==
  CASE answer.k = "network" -> Thrown(Err("fetch failed"))
    [] answer.k = "notOk" ->
         Thrown(Err("HTTP error! status: " \o answer.status))
    [] answer.k = "notJson" -> Thrown(Err("Unexpected token in JSON"))
    [] answer.k = "noData" ->
         Thrown(Err("Cannot read properties of undefined (reading 'map')"))
    [] OTHER ->
         Returned(Obj([content |-> Arr(<<
           Obj([type |-> Str("text"), text |-> Str(FactsText(answer.n))]) >>)]))

\* the text `${name}` of a tool name
NameText(name) ==
  CASE name.t = "str" -> name.v
    [] name.t = "undefined" -> "undefined"
    [] OTHER -> "?"

\* a provider that sends its upstream request before it looks at the name
CallsUpstream_AnyTool(srv, params) ==
  /\ srv = "DogFactsServer"
  /\ params # Undefined

\* does DogFactsServer.callTool reach its fetch
CallsUpstream(srv, params) ==
  /\ srv = "DogFactsServer"
  /\ params # Undefined
  /\ Get(params, "name") = Str("getDogFacts")

\* server.callTool(params), awaited, when the upstream API answers with
\* answer
callToolAfter(srv, params, answer) ==
  CASE srv = "DogFactsServer" ->
         IF params = Undefined
           THEN {Thrown(Err("Cannot destructure property 'name'"))}
         ELSE IF Get(params, "name") = Str("getDogFacts")
           THEN {AfterFetch(answer)}
         ELSE {Thrown(Err("Unknown tool: " \o NameText(Get(params, "name"))))}
    [] srv = "StubServer" -> StubOutcomes(Obj([content |-> Arr(<<>>)]))
    [] OTHER -> RogueOutcomes

\* server.callTool(params), awaited
callTool(srv, params) ==
  UNION { callToolAfter(srv, params, answer) : answer \in UpstreamAnswers }

\* what server.callTool(params) throws before it returns a promise: nothing
\* for the async method of DogFactsServer
callToolSync(srv) ==
  CASE srv = "DogFactsServer" -> {}
    [] srv = "StubServer" -> StubFailures
    [] OTHER -> {Thrown(Unprintable)}

(***************************************************************************)
(* handleMcpRequest                                                        *)
(***************************************************************************)
\* a dispatcher that brings the requested limit into the declared range
ToolCallParams_Clamped(request) ==
  IF Get(request, "params").t = "obj"
     /\ RequestedLimit(Get(request, "params")).t = "num"
    THEN Obj([name |-> Get(Get(request, "params"), "name"),
              arguments |-> Obj([limit |->
                Num(ClampLimit(RequestedLimit(Get(request, "params"))))])])
    ELSE Get(request, "params")

\* params as unknown as MCPToolCallParams
ToolCallParams(request) == Get(request, "params")

\* a validation that does not look at the id
isJSONRPCRequest_AnyId(v) ==
  /\ v.t = "obj"
  /\ Get(v, "jsonrpc") = Str("2.0")
  /\ Get(v, "method").t = "str"

\* isJSONRPCRequest of the SDK: JSONRPCRequestSchema (strict) accepts an
\* object with jsonrpc "2.0", a string or integer id, a string method and,
\* if present, an object params
isJSONRPCRequest(v) ==
  /\ v.t = "obj"
  /\ DOMAIN v.v \subseteq {"jsonrpc", "id", "method", "params"}
  /\ Get(v, "jsonrpc") = Str("2.0")
  /\ Get(v, "id").t \in {"str", "num"}
  /\ Get(v, "method").t = "str"
  /\ Has(v, "params") => Get(v, "params").t = "obj"

\* a result envelope that drops the id of the request
ResultEnvelope_NullId(request, result) ==
  Obj([jsonrpc |-> Get(request, "jsonrpc"), id |-> Null, result |-> result])

\* { jsonrpc, id, result }
ResultEnvelope(request, result) ==
  Obj([jsonrpc |-> Get(request, "jsonrpc"), id |-> Get(request, "id"),
       result |-> result])

\* an error envelope that drops the id of the request
ErrorEnvelope_NullId(request, e) ==
  Obj([jsonrpc |-> Get(request, "jsonrpc"), id |-> Null,
       error |-> Obj([code |-> Num(InternalError),
                      message |-> Str(IF e.isError THEN e.message
                                      ELSE "Internal failure")])])

\* { jsonrpc, id, error: { code: InternalError, message } }
ErrorEnvelope(request, e) ==
  Obj([jsonrpc |-> Get(request, "jsonrpc"), id |-> Get(request, "id"),
       error |-> Obj([code |-> Num(InternalError),
                      message |-> Str(IF e.isError THEN e.message
                                      ELSE "Internal failure")])])

\* a dispatcher that gives up on a batch once one of its elements failed
Settle_AfterFailure(request, outcome) ==
  IF \E j \in 1..Len(responses) : Has(responses[j], "error")
    THEN ErrorEnvelope(request, Err("Batch aborted"))
  ELSE IF outcome.k = "return" THEN ResultEnvelope(request, outcome.v)
  ELSE ErrorEnvelope(request, outcome.e)

\* the envelope handleMcpRequest resolves to for a provider outcome
Settle(request, outcome) ==
  IF outcome.k = "return" THEN ResultEnvelope(request, outcome.v)
  ELSE ErrorEnvelope(request, outcome.e)

\* console.error(`Error handling request: ${error}`) throws in the catch
\* block when the thrown value has no string conversion
LogThrows(outcome) == outcome.k = "throw" /\ ~outcome.e.printable

KnownMethods == {"initialize", "tools/list", "tools/call"}

(***************************************************************************)
(* createApiGatewayHandler: the HTTP responses                             *)
(***************************************************************************)
\* an error envelope that also carries a result member
GatewayError_WithResult(code, message) ==
  Obj([jsonrpc |-> Str("2.0"),
       result |-> Null,
       error |-> Obj([code |-> Num(code), message |-> Str(message)]),
       id |-> Null])

\* the error envelopes the handler itself builds
GatewayError(code, message) ==
  Obj([jsonrpc |-> Str("2.0"),
       error |-> Obj([code |-> Num(code), message |-> Str(message)]),
       id |-> Null])

\* header values are searched strings
\* the headers of an error response without the CORS header
JsonHeaders_NoCors ==
  [k \in {"Content-Type"} |-> <<"application/json">>]

JsonHeaders ==
  [k \in {"Content-Type", "Access-Control-Allow-Origin"} |->
     IF k = "Content-Type" THEN <<"application/json">> ELSE <<"*">>]

AllowedHeaders ==
  <<"Content-Type", ", ", "Accept", ", ", "Authorization", ", ",
    "Mcp-Session-Id", ", ", "Mcp-Protocol-Version">>

\* a preflight answer without Access-Control-Allow-Headers
PreflightResponse_NoAllowHeaders ==
  [statusCode |-> 200,
   headers |-> [k \in {"Access-Control-Allow-Origin",
                       "Access-Control-Allow-Methods"} |->
     IF k = "Access-Control-Allow-Origin" THEN <<"*">>
     ELSE <<"POST, OPTIONS">>],
   body |-> <<>>]

PreflightResponse ==
  [statusCode |-> 200,
   headers |-> [k \in {"Access-Control-Allow-Origin",
                       "Access-Control-Allow-Methods",
                       "Access-Control-Allow-Headers"} |->
     CASE k = "Access-Control-Allow-Origin" -> <<"*">>
       [] k = "Access-Control-Allow-Methods" -> <<"POST, OPTIONS">>
       [] OTHER -> AllowedHeaders],
   body |-> <<>>]

\* a challenge with another error
WwwAuthenticate_InvalidToken ==
  <<"Bearer realm=\"MCP Server\"", ", ", "error=\"invalid_token\"", ", ",
    "error_description=\"Authentication required\"">>

WwwAuthenticate ==
  <<"Bearer realm=\"MCP Server\"", ", ", "error=\"invalid_request\"", ", ",
    "error_description=\"Authentication required\"">>

DiscoveryResponse ==
  [statusCode |-> 401,
   headers |-> [k \in {"Content-Type", "Access-Control-Allow-Origin",
                       "WWW-Authenticate"} |->
     CASE k = "Content-Type" -> <<"application/json">>
       [] k = "Access-Control-Allow-Origin" -> <<"*">>
       [] OTHER -> WwwAuthenticate],
   body |-> JSONstringify(Obj([
     error |-> Str("invalid_request"),
     error_description |-> Str("Authentication required")]))]

ErrorResponse(status, code, message) ==
  [statusCode |-> status, headers |-> JsonHeaders,
   body |-> JSONstringify(GatewayError(code, message))]

\* a 405 with the parse-error code
MethodNotAllowedResponse_ParseError ==
  ErrorResponse(405, ParseError, "Method Not Allowed")

MethodNotAllowedResponse ==
  ErrorResponse(405, InvalidRequest, "Method Not Allowed")
UnsupportedMediaTypeResponse ==
  ErrorResponse(415, InvalidRequest, "Content-Type must be application/json")
EmptyBodyResponse == ErrorResponse(400, ParseError, "Empty request body")
InvalidJsonResponse == ErrorResponse(400, ParseError, "Invalid JSON")
InternalErrorResponse ==
  ErrorResponse(500, InternalError, "Internal server error")

\* the element pushed for a request that is not a JSON-RPC request
InvalidElementEnvelope ==
  GatewayError(InvalidRequest, "Invalid JSON-RPC request")

\* a one-element array answered like a single request
ResponseValue_Unwrap(parsed, resps) ==
  IF parsed.t = "arr" /\ Len(resps) # 1 THEN Arr(resps) ELSE resps[1]

\* Array.isArray(parsedBody) ? responses : responses[0]
ResponseValue(parsed, resps) ==
  IF parsed.t = "arr" THEN Arr(resps) ELSE resps[1]

\* a response whose status reports that an element failed
OkResponse_ErrorStatus(parsed, resps) ==
  [statusCode |-> IF \E i \in 1..Len(resps) : Has(resps[i], "error")
                    THEN 500 ELSE 200,
   headers |-> [k \in {"Content-Type", "Access-Control-Allow-Origin",
                       "Access-Control-Allow-Methods"} |->
     CASE k = "Content-Type" -> <<"application/json">>
       [] k = "Access-Control-Allow-Origin" -> <<"*">>
       [] OTHER -> <<"POST, OPTIONS">>],
   body |-> JSONstringify(ResponseValue(parsed, resps))]

OkResponse(parsed, resps) ==
  [statusCode |-> 200,
   headers |-> [k \in {"Content-Type", "Access-Control-Allow-Origin",
                       "Access-Control-Allow-Methods"} |->
     CASE k = "Content-Type" -> <<"application/json">>
       [] k = "Access-Control-Allow-Origin" -> <<"*">>
       [] OTHER -> <<"POST, OPTIONS">>],
   body |-> JSONstringify(ResponseValue(parsed, resps))]

\* a lookup in which the canonical-case key wins
ContentType_CanonicalFirst(headers) ==
  IF "Content-Type" \in DOMAIN headers /\ headers["Content-Type"] # <<>>
    THEN [defined |-> TRUE, v |-> headers["Content-Type"]]
  ELSE IF "content-type" \in DOMAIN headers
    THEN [defined |-> TRUE, v |-> headers["content-type"]]
  ELSE [defined |-> FALSE, v |-> <<>>]

\* event.headers?.["content-type"] || event.headers?.["Content-Type"]:
\* the lower-case key wins unless it is absent or empty
ContentType(headers) ==
  IF "content-type" \in DOMAIN headers /\ headers["content-type"] # <<>>
    THEN [defined |-> TRUE, v |-> headers["content-type"]]
  ELSE IF "Content-Type" \in DOMAIN headers
    THEN [defined |-> TRUE, v |-> headers["Content-Type"]]
  ELSE [defined |-> FALSE, v |-> <<>>]

\* contentType?.includes("application/json")
IsJsonContentType(headers) ==
  LET ct == ContentType(headers) IN
  ct.defined /\ Includes(ct.v, ApplicationJson)

\* !event.body
BodyIsEmpty(body) == IF body = Null THEN TRUE ELSE body.v = <<>>

\* Array.isArray(parsedBody) ? parsedBody : [parsedBody]
RequestsOf(parsed) == IF parsed.t = "arr" THEN parsed.v ELSE <<parsed>>

(***************************************************************************)
(* The handler, step by step                                               *)
(***************************************************************************)
Init ==
  /\ server \in Servers
  /\ pc = "idle"
  /\ event = NoEvent
  /\ parsedBody = Undefined
  /\ requests = <<>>
  /\ idx = 0
  /\ responses = <<>>
  /\ calls = <<>>
  /\ fetches = <<>>
  /\ httpResponse = NoResponse
  /\ served = 0
  /\ answers = <<>>
  /\ toolsSeen = {}
  /\ upstream = <<>>

\* the handler returns response for event without entering the batch loop
Reply(ev, response) ==
  /\ event' = ev
  /\ httpResponse' = response
  /\ pc' = "done"
  /\ UNCHANGED <<upstream, served, toolsSeen, server, parsedBody, requests, idx,
                 responses, calls, fetches, answers>>

\* if (event.httpMethod === "OPTIONS")
Preflight ==
  /\ pc = "idle"
  /\ \E ev \in Events :
       /\ ev.httpMethod = "OPTIONS"
       /\ Reply(ev, PreflightResponse)

\* if (event.httpMethod === "GET")
Discovery ==
  /\ pc = "idle"
  /\ \E ev \in Events :
       /\ ev.httpMethod # "OPTIONS"
       /\ ev.httpMethod = "GET"
       /\ Reply(ev, DiscoveryResponse)

\* if (event.httpMethod !== "POST")
MethodNotAllowed ==
  /\ pc = "idle"
  /\ \E ev \in Events :
       /\ ev.httpMethod \notin {"OPTIONS", "GET"}
       /\ ev.httpMethod # "POST"
       /\ Reply(ev, MethodNotAllowedResponse)

\* if (!contentType?.includes("application/json"))
UnsupportedMediaType ==
  /\ pc = "idle"
  /\ \E ev \in Events :
       /\ ev.httpMethod = "POST"
       /\ ~IsJsonContentType(ev.headers)
       /\ Reply(ev, UnsupportedMediaTypeResponse)

\* a body check that does not wait for the content-type check
EmptyBody_BeforeContentType ==
  /\ pc = "idle"
  /\ \E ev \in Events :
       /\ ev.httpMethod = "POST"
       /\ BodyIsEmpty(ev.body)
       /\ Reply(ev, EmptyBodyResponse)

\* if (!event.body)
EmptyBody ==
  /\ pc = "idle"
  /\ \E ev \in Events :
       /\ ev.httpMethod = "POST"
       /\ IsJsonContentType(ev.headers)
       /\ BodyIsEmpty(ev.body)
       /\ Reply(ev, EmptyBodyResponse)

\* JSON.parse(event.body) throws
InvalidJson ==
  /\ pc = "idle"
  /\ \E ev \in Events :
       /\ ev.httpMethod = "POST"
       /\ IsJsonContentType(ev.headers)
       /\ ~BodyIsEmpty(ev.body)
       /\ ~JSONparse(ev.body.v).ok
       /\ Reply(ev, InvalidJsonResponse)

\* a responses array kept at module level, which still holds an envelope of
\* the invocation before
BeginBatch_StaleResponses ==
  /\ pc = "idle"
  /\ \E ev \in Events :
       /\ ev.httpMethod = "POST"
       /\ IsJsonContentType(ev.headers)
       /\ ~BodyIsEmpty(ev.body)
       /\ JSONparse(ev.body.v).ok
       /\ event' = ev
       /\ parsedBody' = JSONparse(ev.body.v).v
       /\ requests' = RequestsOf(JSONparse(ev.body.v).v)
       /\ idx' = 1
       /\ responses' = IF served = 0 THEN <<>> ELSE <<InvalidElementEnvelope>>
       /\ pc' = "loop"
       /\ UNCHANGED <<upstream,
                      served, toolsSeen, server, calls, fetches, httpResponse,
                      answers>>

\* the body parses: enter the loop over requests
BeginBatch ==
  /\ pc = "idle"
  /\ \E ev \in Events :
       /\ ev.httpMethod = "POST"
       /\ IsJsonContentType(ev.headers)
       /\ ~BodyIsEmpty(ev.body)
       /\ JSONparse(ev.body.v).ok
       /\ event' = ev
       /\ parsedBody' = JSONparse(ev.body.v).v
       /\ requests' = RequestsOf(JSONparse(ev.body.v).v)
       /\ idx' = 1
       /\ responses' = <<>>
       /\ pc' = "loop"
       /\ UNCHANGED <<upstream,
                      served, toolsSeen, server, calls, fetches, httpResponse,
                      answers>>

InLoop == pc = "loop" /\ idx <= Len(requests)

\* a push at the front of responses
Push_Front(envelope) ==
  /\ responses' = <<envelope>> \o responses
  /\ idx' = idx + 1
  /\ pc' = "loop"

\* responses.push(response) and on to the next request
Push(envelope) ==
  /\ responses' = Append(responses, envelope)
  /\ idx' = idx + 1
  /\ pc' = "loop"

\* else branch of isJSONRPCRequest(request)
RejectElement ==
  /\ InLoop
  /\ ~isJSONRPCRequest(requests[idx])
  /\ Push(InvalidElementEnvelope)
  /\ answers' = Append(answers, NoAnswer)
  /\ UNCHANGED <<upstream,
                 served, toolsSeen, server, event, parsedBody, requests, calls,
                 fetches, httpResponse>>

\* method === "initialize"
DispatchInitialize ==
  /\ InLoop
  /\ isJSONRPCRequest(requests[idx])
  /\ Get(requests[idx], "method") = Str("initialize")
  /\ \E outcome \in initialize(server) :
       /\ ~LogThrows(outcome)
       /\ Push(Settle(requests[idx], outcome))
       /\ answers' = Append(answers, outcome)
  /\ calls' = Append(calls, [op |-> "initialize", params |-> Undefined])
  /\ UNCHANGED <<upstream,
                 served, toolsSeen, server, event, parsedBody, requests,
                 fetches, httpResponse>>

\* method === "tools/list"
DispatchListTools ==
  /\ InLoop
  /\ isJSONRPCRequest(requests[idx])
  /\ Get(requests[idx], "method") = Str("tools/list")
  /\ \E outcome \in listTools(server) :
       /\ ~LogThrows(outcome)
       /\ Push(Settle(requests[idx], outcome))
       /\ answers' = Append(answers, outcome)
       /\ toolsSeen' = IF outcome.k = "return"
                         THEN toolsSeen \cup {outcome.v} ELSE toolsSeen
  /\ calls' = Append(calls, [op |-> "listTools", params |-> Undefined])
  /\ UNCHANGED <<upstream, served, server, event, parsedBody, requests, fetches,
                 httpResponse>>

\* a loop that starts the tool call and goes on to the next element without
\* awaiting it
DispatchCallTool_NotAwaited ==
  /\ InLoop
  /\ isJSONRPCRequest(requests[idx])
  /\ Get(requests[idx], "method") = Str("tools/call")
  /\ calls' = Append(calls, [op |-> "callTool",
                             params |-> ToolCallParams(requests[idx])])
  /\ fetches' = IF CallsUpstream(server, ToolCallParams(requests[idx]))
                  THEN Append(fetches,
                    ClampLimit(RequestedLimit(ToolCallParams(requests[idx]))))
                  ELSE fetches
  /\ idx' = idx + 1
  /\ pc' = "loop"
  /\ UNCHANGED <<upstream,
                 served, toolsSeen, server, event, parsedBody, requests,
                 responses, httpResponse, answers>>

\* method === "tools/call": server.callTool(params) is called and awaited;
\* DogFactsServer sends its upstream request for getDogFacts
DispatchCallTool ==
  /\ InLoop
  /\ isJSONRPCRequest(requests[idx])
  /\ Get(requests[idx], "method") = Str("tools/call")
  /\ calls' = Append(calls, [op |-> "callTool",
                             params |-> ToolCallParams(requests[idx])])
  /\ fetches' = IF CallsUpstream(server, ToolCallParams(requests[idx]))
                  THEN Append(fetches,
                    ClampLimit(RequestedLimit(ToolCallParams(requests[idx]))))
                  ELSE fetches
  /\ pc' = "await"
  /\ UNCHANGED <<upstream,
                 served, toolsSeen, server, event, parsedBody, requests, idx,
                 responses, httpResponse, answers>>

\* the promise of server.callTool settles; the upstream API has answered
\* when the tool asked it
CallToolSettles ==
  /\ pc = "await"
  /\ \E answer \in UpstreamAnswers :
       \E outcome \in
           callToolAfter(server, ToolCallParams(requests[idx]), answer) :
         /\ ~LogThrows(outcome)
         /\ Push(Settle(requests[idx], outcome))
         /\ answers' = Append(answers, outcome)
         /\ upstream' =
              IF CallsUpstream(server, ToolCallParams(requests[idx]))
                THEN Append(upstream, answer) ELSE upstream
  /\ UNCHANGED <<served, toolsSeen, server, event, parsedBody, requests, calls,
                 fetches, httpResponse>>

\* a dispatcher that calls the tool a second time when the call threw
CallToolThrows_Retries ==
  /\ InLoop
  /\ isJSONRPCRequest(requests[idx])
  /\ Get(requests[idx], "method") = Str("tools/call")
  /\ \E outcome \in callToolSync(server) :
       /\ ~LogThrows(outcome)
       /\ Push(Settle(requests[idx], outcome))
       /\ answers' = Append(answers, outcome)
  /\ calls' = Append(Append(calls,
                 [op |-> "callTool", params |-> ToolCallParams(requests[idx])]),
                 [op |-> "callTool", params |-> ToolCallParams(requests[idx])])
  /\ UNCHANGED <<upstream,
                 served, toolsSeen, server, event, parsedBody, requests,
                 fetches, httpResponse>>

\* method === "tools/call" and server.callTool(params) throws instead of
\* returning a promise
CallToolThrows ==
  /\ InLoop
  /\ isJSONRPCRequest(requests[idx])
  /\ Get(requests[idx], "method") = Str("tools/call")
  /\ \E outcome \in callToolSync(server) :
       /\ ~LogThrows(outcome)
       /\ Push(Settle(requests[idx], outcome))
       /\ answers' = Append(answers, outcome)
  /\ calls' = Append(calls, [op |-> "callTool",
                             params |-> ToolCallParams(requests[idx])])
  /\ UNCHANGED <<upstream,
                 served, toolsSeen, server, event, parsedBody, requests,
                 fetches, httpResponse>>

\* a dispatcher that answers an unknown method with the method-not-found
\* code
DispatchUnknownMethod_MethodNotFound ==
  /\ InLoop
  /\ isJSONRPCRequest(requests[idx])
  /\ Get(requests[idx], "method").v \notin KnownMethods
  /\ Push(Obj([jsonrpc |-> Str("2.0"), id |-> Get(requests[idx], "id"),
               error |-> Obj([code |-> Num(0 - 32601),
                              message |-> Str("Unknown method: "
                                \o Get(requests[idx], "method").v)])]))
  /\ answers' = Append(answers, NoAnswer)
  /\ UNCHANGED <<upstream,
                 served, toolsSeen, server, event, parsedBody, requests, calls,
                 fetches, httpResponse>>

\* throw new Error(`Unknown method: ${method}`)
DispatchUnknownMethod ==
  /\ InLoop
  /\ isJSONRPCRequest(requests[idx])
  /\ Get(requests[idx], "method").v \notin KnownMethods
  /\ Push(Settle(requests[idx],
          Thrown(Err("Unknown method: " \o Get(requests[idx], "method").v))))
  /\ answers' = Append(answers, NoAnswer)
  /\ UNCHANGED <<upstream,
                 served, toolsSeen, server, event, parsedBody, requests, calls,
                 fetches, httpResponse>>

\* a handler that builds the 200 response and does not return
Respond_NoReturn ==
  /\ pc = "loop"
  /\ idx > Len(requests)
  /\ CanStringify(Arr(responses))
  /\ httpResponse' = OkResponse(parsedBody, responses)
  /\ pc' = "loop"
  /\ UNCHANGED <<upstream,
                 served, toolsSeen, server, event, parsedBody, requests, idx,
                 responses, calls, fetches, answers>>

\* the loop is over: return the 200 response
Respond ==
  /\ pc = "loop"
  /\ idx > Len(requests)
  /\ CanStringify(Arr(responses))
  /\ httpResponse' = OkResponse(parsedBody, responses)
  /\ pc' = "done"
  /\ UNCHANGED <<upstream,
                 served, toolsSeen, server, event, parsedBody, requests, idx,
                 responses, calls, fetches, answers>>

\* the invocation is over; the instance waits for the next event with
\* nothing kept from this one
NextInvocation ==
  /\ pc = "done"
  /\ served < MaxServed
  /\ served' = served + 1
  /\ pc' = "idle"
  /\ event' = NoEvent
  /\ parsedBody' = Undefined
  /\ requests' = <<>>
  /\ idx' = 0
  /\ responses' = <<>>
  /\ calls' = <<>>
  /\ fetches' = <<>>
  /\ httpResponse' = NoResponse
  /\ answers' = <<>>
  /\ upstream' = <<>>
  /\ UNCHANGED <<server, toolsSeen>>

Next ==
  \/ Preflight
  \/ Discovery
  \/ MethodNotAllowed
  \/ UnsupportedMediaType
  \/ EmptyBody
  \/ InvalidJson
  \/ BeginBatch
  \/ RejectElement
  \/ DispatchInitialize
  \/ DispatchListTools
  \/ DispatchCallTool
  \/ CallToolSettles
  \/ CallToolThrows
  \/ DispatchUnknownMethod
  \/ Respond
  \/ NextInvocation

Spec == Init /\ [][Next]_vars

(***************************************************************************)
(* Providers outside the JSON contract: a returned value JSON.stringify    *)
(* throws on, a thrown value that cannot be converted to a string.  Both   *)
(* failures reach the catch block of the handler.                          *)
(***************************************************************************)
InitAny ==
  /\ server \in AnyServers
  /\ pc = "idle"
  /\ event = NoEvent
  /\ parsedBody = Undefined
  /\ requests = <<>>
  /\ idx = 0
  /\ responses = <<>>
  /\ calls = <<>>
  /\ fetches = <<>>
  /\ httpResponse = NoResponse
  /\ served = 0
  /\ answers = <<>>
  /\ toolsSeen = {}
  /\ upstream = <<>>

\* a catch block that answers with the text of what it caught
HandlerCatch_Leaks ==
  /\ httpResponse' =
       ErrorResponse(500, InternalError,
         IF pc = "loop" /\ idx > Len(requests)
           THEN "Do not know how to serialize a BigInt"
           ELSE "Cannot convert a Symbol value to a string")
  /\ pc' = "done"

\* catch (error) of the handler
HandlerCatch ==
  /\ httpResponse' = InternalErrorResponse
  /\ pc' = "done"

\* the outcomes of the provider operation a request is routed to, up to the
\* return of the call
SyncOutcomes(request) ==
  CASE Get(request, "method") = Str("initialize") -> initialize(server)
    [] Get(request, "method") = Str("tools/list") -> listTools(server)
    [] Get(request, "method") = Str("tools/call") -> callToolSync(server)
    [] OTHER -> {}

\* the provider operation a request is routed to
OperationOf(request) ==
  CASE Get(request, "method") = Str("initialize") ->
         [op |-> "initialize", params |-> Undefined]
    [] Get(request, "method") = Str("tools/list") ->
         [op |-> "listTools", params |-> Undefined]
    [] OTHER -> [op |-> "callTool", params |-> ToolCallParams(request)]

\* handleMcpRequest rejects: the console.error of its catch block throws
DispatcherThrows ==
  /\ IF pc = "await"
       THEN /\ \E outcome \in callTool(server, ToolCallParams(requests[idx])) :
                 /\ LogThrows(outcome)
                 /\ answers' = Append(answers, outcome)
            /\ UNCHANGED calls
       ELSE /\ InLoop
            /\ isJSONRPCRequest(requests[idx])
            /\ \E outcome \in SyncOutcomes(requests[idx]) :
                 /\ LogThrows(outcome)
                 /\ answers' = Append(answers, outcome)
            /\ calls' = Append(calls, OperationOf(requests[idx]))
  /\ HandlerCatch
  /\ UNCHANGED <<upstream,
                 served, toolsSeen, server, event, parsedBody, requests, idx,
                 responses, fetches>>

\* JSON.stringify of the responses throws
SerializeThrows ==
  /\ pc = "loop"
  /\ idx > Len(requests)
  /\ ~CanStringify(Arr(responses))
  /\ HandlerCatch
  /\ UNCHANGED <<upstream,
                 served, toolsSeen, server, event, parsedBody, requests, idx,
                 responses, calls, fetches, answers>>

NextAny == Next \/ DispatcherThrows \/ SerializeThrows

SpecAny == InitAny /\ [][NextAny]_vars

(***************************************************************************)
(* Progress.  The event loop runs the handler's next step whenever there   *)
(* is one, and an awaited provider operation settles.                      *)
(***************************************************************************)
\* the steps of the loop over requests and the final return
HandlerStep ==
  \/ RejectElement
  \/ DispatchInitialize
  \/ DispatchListTools
  \/ DispatchCallTool
  \/ CallToolThrows
  \/ DispatchUnknownMethod
  \/ Respond

SpecFair ==
  /\ Init
  /\ [][Next]_vars
  /\ WF_vars(HandlerStep)
  /\ WF_vars(CallToolSettles)

(***************************************************************************)
(* The debug log of the inbound event is written before the try block.    *)
(* When console.debug or the JSON.stringify of its argument throws, the    *)
(* promise of the handler rejects and no APIGatewayProxyResult exists.     *)
(***************************************************************************)
\* console.debug("Incoming event:", JSON.stringify(event, null, 2)) throws
DebugLogThrows ==
  /\ pc = "idle"
  /\ \E ev \in Events :
       /\ event' = ev
       /\ pc' = "rejected"
  /\ UNCHANGED <<upstream, served, toolsSeen, server, parsedBody, requests, idx,
                 responses, calls, fetches, httpResponse, answers>>

NextLog == Next \/ DebugLogThrows

SpecLog == Init /\ [][NextLog]_vars

(***************************************************************************)
(* The earlier handler of mcp.ts, with the dog-facts logic inline.  It is  *)
(* a function of the event and of what the upstream API answers to the     *)
(* requests it sends, in order.                                            *)
(***************************************************************************)
\* the catch block of the inline handleMcpRequest, for the Errors its try
\* block throws
MonolithError(request, message) ==
  Obj([jsonrpc |-> Get(request, "jsonrpc"), id |-> Get(request, "id"),
       error |-> Obj([code |-> Num(InternalError), message |-> Str(message)])])

MonolithResult(request, result) ==
  Obj([jsonrpc |-> Get(request, "jsonrpc"), id |-> Get(request, "id"),
       result |-> result])

\* does the inline tools/call reach its fetch
MonolithFetches(request) ==
  /\ Get(request, "method") = Str("tools/call")
  /\ Get(request, "params") # Undefined
  /\ Get(Get(request, "params"), "name") = Str("getDogFacts")

\* Math.min(Math.max((args?.limit as number) || 5, 1), 10)
MonolithLimit(request) ==
  LET args == Get(Get(request, "params"), "arguments")
      limit == IF args.t = "obj" THEN Get(args, "limit") ELSE Undefined
      orFive == IF limit.t = "num" /\ limit.v # 0 THEN limit.v ELSE 5
  IN Min(Max(orFive, 1), 10)

\* the text block for facts.length = n
MonolithText(n) ==
  "Here " \o (IF n = 1 THEN "is" ELSE "are") \o " " \o ToString(n)
  \o " dog fact" \o (IF n = 1 THEN "" ELSE "s") \o ":"

\* the inline getDogFacts branch once fetch has settled with answer
MonolithGetDogFacts(request, answer) ==
  CASE answer.k = "network" -> MonolithError(request, "fetch failed")
    [] answer.k = "notOk" ->
         MonolithError(request, "HTTP error! status: " \o answer.status)
    [] answer.k = "notJson" ->
         MonolithError(request, "Unexpected token in JSON")
    [] answer.k = "noData" ->
         MonolithError(request,
           "Cannot read properties of undefined (reading 'map')")
    [] OTHER ->
         MonolithResult(request, Obj([content |-> Arr(<<
           Obj([type |-> Str("text"),
                text |-> Str(MonolithText(answer.n))]) >>)]))

\* the inline handleMcpRequest(request); answer is what the upstream API
\* answers when the request reaches the fetch
MonolithDispatch(request, answer) ==
  LET method == Get(request, "method")
      params == Get(request, "params")
  IN
  IF method = Str("initialize") THEN
    MonolithResult(request,
      Obj([protocolVersion |-> Str("2024-11-05"),
           capabilities |-> Obj([tools |-> Obj(<<>>)]),
           serverInfo |-> Obj([name |-> Str("dog-facts-server"),
                               version |-> Str("1.0.0")])]))
  ELSE IF method = Str("tools/list") THEN
    MonolithResult(request,
      Obj([tools |-> Arr(<<
        Obj([name |-> Str("getDogFacts"),
             description |-> Str("Get random facts about dogs"),
             inputSchema |-> Obj([
               type |-> Str("object"),
               properties |-> Obj([limit |-> Obj([
                 type |-> Str("number"),
                 description |->
                   Str("Maximum number of facts to return (default: 5, max: 10)"),
                 minimum |-> Num(1),
                 maximum |-> Num(10),
                 default |-> Num(5)])]),
               additionalProperties |-> Bool(FALSE)])]) >>)]))
  ELSE IF method = Str("tools/call") THEN
    IF params = Undefined
      THEN MonolithError(request, "Cannot destructure property 'name'")
    ELSE IF Get(params, "name") = Str("getDogFacts")
      THEN MonolithGetDogFacts(request, answer)
    ELSE MonolithError(request,
           "Unknown tool: " \o NameText(Get(params, "name")))
  ELSE MonolithError(request, "Unknown method: " \o method.v)

\* a JSON-RPC error response of the earlier handler
MonolithErrorResponse(status, code, message) ==
  [statusCode |-> status,
   headers |-> [k \in {"Content-Type", "Access-Control-Allow-Origin"} |->
     IF k = "Content-Type" THEN <<"application/json">> ELSE <<"*">>],
   body |-> JSONstringify(Obj([
     jsonrpc |-> Str("2.0"),
     error |-> Obj([code |-> Num(code), message |-> Str(message)]),
     id |-> Null]))]

\* event.headers?.["content-type"] || event.headers?.["Content-Type"],
\* then contentType?.includes("application/json")
MonolithJsonContentType(headers) ==
  IF "content-type" \in DOMAIN headers /\ headers["content-type"] # <<>>
    THEN Includes(headers["content-type"], ApplicationJson)
  ELSE IF "Content-Type" \in DOMAIN headers
    THEN Includes(headers["Content-Type"], ApplicationJson)
  ELSE FALSE

RECURSIVE MonolithLoop(_, _, _)
\* the loop over requests from element i on; ups are the answers of the
\* upstream API not consumed yet
MonolithLoop(reqs, i, ups) ==
  IF i > Len(reqs) THEN <<>>
  ELSE IF ~isJSONRPCRequest(reqs[i])
    THEN <<Obj([jsonrpc |-> Str("2.0"),
                error |-> Obj([code |-> Num(InvalidRequest),
                               message |-> Str("Invalid JSON-RPC request")]),
                id |-> Null])>>
         \o MonolithLoop(reqs, i + 1, ups)
  ELSE IF MonolithFetches(reqs[i]) /\ ups # <<>>
    THEN <<MonolithDispatch(reqs[i], Head(ups))>>
         \o MonolithLoop(reqs, i + 1, Tail(ups))
  ELSE <<MonolithDispatch(reqs[i], [k |-> "network"])>>
       \o MonolithLoop(reqs, i + 1, ups)

RECURSIVE MonolithLimits(_, _)
\* the limits of the requests the loop sends upstream from element i on
MonolithLimits(reqs, i) ==
  IF i > Len(reqs) THEN <<>>
  ELSE (IF isJSONRPCRequest(reqs[i]) /\ MonolithFetches(reqs[i])
          THEN <<MonolithLimit(reqs[i])>> ELSE <<>>)
       \o MonolithLimits(reqs, i + 1)

\* the earlier handler(event)
MonolithHandler(ev, ups) ==
  IF ev.httpMethod = "OPTIONS" THEN
    [statusCode |-> 200,
     headers |-> [k \in {"Access-Control-Allow-Origin",
                         "Access-Control-Allow-Methods",
                         "Access-Control-Allow-Headers"} |->
       CASE k = "Access-Control-Allow-Origin" -> <<"*">>
         [] k = "Access-Control-Allow-Methods" -> <<"POST, OPTIONS">>
         [] OTHER ->
              <<"Content-Type", ", ", "Accept", ", ", "Authorization", ", ",
                "Mcp-Session-Id", ", ", "Mcp-Protocol-Version">>],
     body |-> <<>>]
  ELSE IF ev.httpMethod = "GET" THEN
    [statusCode |-> 401,
     headers |-> [k \in {"Content-Type", "Access-Control-Allow-Origin",
                         "WWW-Authenticate"} |->
       CASE k = "Content-Type" -> <<"application/json">>
         [] k = "Access-Control-Allow-Origin" -> <<"*">>
         [] OTHER ->
              <<"Bearer realm=\"MCP Server\"", ", ",
                "error=\"invalid_request\"", ", ",
                "error_description=\"Authentication required\"">>],
     body |-> JSONstringify(Obj([
       error |-> Str("invalid_request"),
       error_description |-> Str("Authentication required")]))]
  ELSE IF ev.httpMethod # "POST" THEN
    MonolithErrorResponse(405, InvalidRequest, "Method Not Allowed")
  ELSE IF ~MonolithJsonContentType(ev.headers) THEN
    MonolithErrorResponse(415, InvalidRequest,
                          "Content-Type must be application/json")
  ELSE IF ev.body = Null THEN
    MonolithErrorResponse(400, ParseError, "Empty request body")
  ELSE IF ev.body.v = <<>> THEN
    MonolithErrorResponse(400, ParseError, "Empty request body")
  ELSE IF ~JSONparse(ev.body.v).ok THEN
    MonolithErrorResponse(400, ParseError, "Invalid JSON")
  ELSE
    LET parsed == JSONparse(ev.body.v).v
        reqs == IF parsed.t = "arr" THEN parsed.v ELSE <<parsed>>
        resps == MonolithLoop(reqs, 1, ups)
    IN [statusCode |-> 200,
        headers |-> [k \in {"Content-Type", "Access-Control-Allow-Origin",
                            "Access-Control-Allow-Methods"} |->
          CASE k = "Content-Type" -> <<"application/json">>
            [] k = "Access-Control-Allow-Origin" -> <<"*">>
            [] OTHER -> <<"POST, OPTIONS">>],
        body |-> JSONstringify(IF parsed.t = "arr" THEN Arr(resps)
                               ELSE resps[1])]

(***************************************************************************)
(* Properties                                                              *)
(***************************************************************************)
Done == pc = "done"

\* the POST passed the transport checks: its body was parsed
Accepted == event.httpMethod = "POST" /\ parsedBody # Undefined

\* what the client reads in the response body
ResponseJson == JSONparse(httpResponse.body)

\* an envelope with exactly one of result and error
OneOfResultError(env) == Has(env, "result") # Has(env, "error")

\* the structural conditions on an envelope: the jsonrpc discriminator, a
\* string method, an id that is a string or a number
Qualifies(v) ==
  /\ v.t = "obj"
  /\ Has(v, "jsonrpc")
  /\ Get(v, "method").t = "str"
  /\ Get(v, "id").t \in {"str", "num"}

IsErrorWith(env, code) ==
  /\ Has(env, "error")
  /\ ~Has(env, "result")
  /\ Get(Get(env, "error"), "code") = Num(code)

NoProviderCall == calls = <<>> /\ fetches = <<>>

\* the envelopes handleMcpRequest can produce for a request with this server
EnvelopesFor(request) ==
  LET method == Get(request, "method").v
      outcomes ==
        CASE method = "initialize" -> initialize(server)
          [] method = "tools/list" -> listTools(server)
          [] method = "tools/call" -> callTool(server, Get(request, "params"))
          [] OTHER -> {Thrown(Err("Unknown method: " \o method))}
  IN { IF o.k = "return"
         THEN Obj([jsonrpc |-> Str("2.0"), id |-> Get(request, "id"),
                   result |-> o.v])
         ELSE Obj([jsonrpc |-> Str("2.0"), id |-> Get(request, "id"),
                   error |-> Obj([code |-> Num(InternalError),
                                  message |-> Str(IF o.e.isError
                                                    THEN o.e.message
                                                    ELSE "Internal failure")])])
       : o \in outcomes }

\* the envelope at a position answers the request element at that position
AnswersElement(env, request) ==
  IF Qualifies(request)
    THEN env \in EnvelopesFor(request)
    ELSE /\ IsErrorWith(env, InvalidRequest)
         /\ Get(env, "id") = Null

C2_BatchAnsweredInOrder ==
  (Done /\ Accepted /\ parsedBody.t = "arr")
  => LET read == ResponseJson
     IN /\ read.ok
        /\ read.v.t = "arr"
        /\ Len(read.v.v) = Len(parsedBody.v)
        /\ \A i \in 1..Len(parsedBody.v) :
             AnswersElement(read.v.v[i], parsedBody.v[i])

\* a batch of two different elements, the second without an id, was answered
C2_Witness ==
  /\ Done
  /\ Accepted
  /\ parsedBody.t = "arr"
  /\ Len(parsedBody.v) = 2
  /\ Qualifies(parsedBody.v[1])
  /\ ~Has(parsedBody.v[2], "id")
  /\ Len(ResponseJson.v.v) = 2
  /\ Has(ResponseJson.v.v[1], "result")

EnvelopesOf(v) == IF v.t = "arr" THEN {v.v[i] : i \in 1..Len(v.v)} ELSE {v}

\* C4: every protocol envelope the gateway emits (with status 405, 415, 400,
\* 500 or 200, for malformed elements, results and errors of the dispatcher)
\* carries exactly one of result and error.
C4_ExactlyOneOfResultError ==
  (Done /\ event.httpMethod \notin {"OPTIONS", "GET"})
  => /\ ResponseJson.ok
     /\ \A env \in EnvelopesOf(ResponseJson.v) : OneOfResultError(env)

\* a batch was answered with a result envelope and an error envelope
C4_Witness ==
  /\ Done
  /\ httpResponse.statusCode = 200
  /\ ResponseJson.v.t = "arr"
  /\ \E env \in EnvelopesOf(ResponseJson.v) : Has(env, "result")
  /\ \E env \in EnvelopesOf(ResponseJson.v) : Has(env, "error")

\* the provider operations the qualifying elements among the first n call for
RECURSIVE OperationsFor(_, _)
OperationsFor(reqs, n) ==
  IF n = 0 THEN <<>>
  ELSE LET req == reqs[n]
           method == IF Qualifies(req) THEN Get(req, "method").v ELSE ""
       IN OperationsFor(reqs, n - 1) \o
          (CASE method = "initialize" ->
                  <<[op |-> "initialize", params |-> Undefined]>>
             [] method = "tools/list" ->
                  <<[op |-> "listTools", params |-> Undefined]>>
             [] method = "tools/call" ->
                  <<[op |-> "callTool", params |-> Get(req, "params")]>>
             [] OTHER -> <<>>)

\* C5: for a request element that does not structurally qualify as an
\* envelope the gateway invokes no provider operation (the operations
\* invoked are those of the qualifying elements handled so far, in order)
\* and answers with an Error Envelope with id null and the invalid-request
\* code.
C5_MalformedNeverDispatched ==
  /\ calls = OperationsFor(requests,
                           IF pc = "await" THEN idx
                           ELSE IF idx = 0 THEN 0 ELSE idx - 1)
  /\ \A i \in 1..Len(responses) :
       ~Qualifies(requests[i])
         => /\ IsErrorWith(responses[i], InvalidRequest)
            /\ Get(responses[i], "id") = Null
  /\ (Done /\ Accepted)
       => \A i \in 1..Len(requests) :
            ~Qualifies(requests[i])
              => LET env == IF parsedBody.t = "arr"
                              THEN ResponseJson.v.v[i] ELSE ResponseJson.v
                 IN IsErrorWith(env, InvalidRequest) /\ Get(env, "id") = Null

\* a batch of an element that does not qualify followed by a tools/call was
\* answered with the one provider operation of the tools/call
C5_Witness ==
  /\ Done
  /\ Accepted
  /\ Len(requests) = 2
  /\ ~Qualifies(requests[1])
  /\ Has(requests[1], "method")
  /\ Len(calls) = 1
  /\ calls[1].op = "callTool"
  /\ IsErrorWith(ResponseJson.v.v[1], InvalidRequest)

HeaderIs(k, text) ==
  k \in DOMAIN httpResponse.headers /\ httpResponse.headers[k] = text

\* C6: a request with verb OPTIONS receives status 200, an empty body and
\* the three CORS headers whatever its headers and body are; its body is
\* never parsed and no provider operation is invoked.
C6_PreflightAlways200 ==
  event.httpMethod = "OPTIONS"
  => /\ Done
     /\ httpResponse.statusCode = 200
     /\ httpResponse.body = <<>>
     /\ HeaderIs("Access-Control-Allow-Origin", <<"*">>)
     /\ HeaderIs("Access-Control-Allow-Methods", <<"POST, OPTIONS">>)
     /\ "Access-Control-Allow-Headers" \in DOMAIN httpResponse.headers
     /\ \A h \in {"Content-Type", "Accept", "Authorization"} :
          Includes(httpResponse.headers["Access-Control-Allow-Headers"], <<h>>)
     /\ parsedBody = Undefined
     /\ NoProviderCall

\* an OPTIONS request with a JSON content type and a body that is a valid
\* tools/call was answered
C6_Witness ==
  /\ Done
  /\ event.httpMethod = "OPTIONS"
  /\ IsJsonContentType(event.headers)
  /\ event.body # Null
  /\ JSONparse(event.body.v).ok
  /\ Qualifies(JSONparse(event.body.v).v)
  /\ Get(JSONparse(event.body.v).v, "method") = Str("tools/call")
  /\ httpResponse.statusCode = 200

TransportError(status, code) ==
  /\ httpResponse.statusCode = status
  /\ ResponseJson.ok
  /\ IsErrorWith(ResponseJson.v, code)
  /\ Has(ResponseJson.v, "id")
  /\ Get(ResponseJson.v, "id") = Null

\* C8: a request whose verb is none of POST, OPTIONS, GET receives status
\* 405 with an Error Envelope with id null and the invalid-request code, and
\* no provider operation is invoked.
C8_OtherVerbs405 ==
  (event # NoEvent /\ event.httpMethod \notin {"POST", "OPTIONS", "GET"})
  => /\ Done
     /\ TransportError(405, InvalidRequest)
     /\ parsedBody = Undefined
     /\ NoProviderCall

\* a PUT request with a JSON content type and a valid envelope was answered
C8_Witness ==
  /\ Done
  /\ event.httpMethod = "PUT"
  /\ IsJsonContentType(event.headers)
  /\ event.body # Null
  /\ JSONparse(event.body.v).ok
  /\ Qualifies(JSONparse(event.body.v).v)
  /\ httpResponse.statusCode = 405

\* a value containing application/json is present under either key
JsonUnderEitherKey ==
  \E k \in DOMAIN event.headers \cap HeaderKeys :
    Includes(event.headers[k], ApplicationJson)

\* the value the content-type check looks at is that of the lower-case key
\* or, when that key is absent or empty, that of the canonical-case key
JsonUnderLookedUpKey ==
  LET lower == "content-type" \in DOMAIN event.headers
               /\ event.headers["content-type"] # <<>>
  IN IF lower
       THEN Includes(event.headers["content-type"], ApplicationJson)
       ELSE /\ "Content-Type" \in DOMAIN event.headers
            /\ Includes(event.headers["Content-Type"], ApplicationJson)

\* the POST was stopped by the content-type check
Stopped415 ==
  /\ Done
  /\ TransportError(415, InvalidRequest)
  /\ parsedBody = Undefined
  /\ NoProviderCall

\* C9 as stated: a POST proceeds past the content-type check if and only if
\* a value containing application/json is present under the canonical-case
\* or the lower-case key; otherwise the response is 415 with an Error
\* Envelope (id null, invalid request) and no provider operation is invoked.
C9_Original ==
  event.httpMethod = "POST"
  => /\ JsonUnderEitherKey => httpResponse.statusCode # 415
     /\ ~JsonUnderEitherKey => Stopped415

\* C9 amended: a POST proceeds past the content-type check if and only if
\* the value of the lower-case key or, when that key is absent or empty, the
\* value of the canonical-case key contains application/json; otherwise the
\* response is 415 with an Error Envelope (id null, invalid request) and no
\* provider operation is invoked.
C9_ContentTypeLookup ==
  event.httpMethod = "POST"
  => /\ JsonUnderLookedUpKey => httpResponse.statusCode # 415
     /\ ~JsonUnderLookedUpKey => Stopped415

\* a POST with text/plain under the lower-case key and application/json
\* under the canonical-case key was answered with 415
C9_Witness ==
  /\ Done
  /\ event.httpMethod = "POST"
  /\ "content-type" \in DOMAIN event.headers
  /\ event.headers["content-type"] = <<"text/plain">>
  /\ "Content-Type" \in DOMAIN event.headers
  /\ event.headers["Content-Type"] = <<"application/json">>
  /\ httpResponse.statusCode = 415

\* C10: a POST with a JSON content type whose body is absent, empty or not
\* parseable as JSON receives status 400 with an Error Envelope with id null
\* and the parse-error code, and no provider operation is invoked.
C10_BadBody400 ==
  (/\ event.httpMethod = "POST"
   /\ JsonUnderLookedUpKey
   /\ IF event.body = Null THEN TRUE
      ELSE event.body.v \in MalformedTexts \cup {<<>>})
  => /\ Done
     /\ TransportError(400, ParseError)
     /\ parsedBody = Undefined
     /\ NoProviderCall

\* a POST with a JSON content type and a body with a trailing comma in its
\* array was answered
C10_Witness ==
  /\ Done
  /\ event.httpMethod = "POST"
  /\ event.body = Str(<<LB, Atom(Null), Comma, RB>>)
  /\ httpResponse.statusCode = 400

\* a failure left handleMcpRequest or the loop: the log line of the
\* dispatcher's catch block threw on what the provider threw, or the
\* collected responses cannot be serialized
FailureEscaped ==
  \/ /\ answers # <<>>
     /\ LogThrows(answers[Len(answers)])
  \/ /\ Accepted
     /\ idx > Len(requests)
     /\ ~CanStringify(Arr(responses))

\* the one envelope of a 500
FixedInternalError ==
  Obj([jsonrpc |-> Str("2.0"),
       error |-> Obj([code |-> Num(0 - 32603),
                      message |-> Str("Internal server error")]),
       id |-> Null])

\* C11: a failure that escapes the dispatcher and the batch loop (the
\* serialization of the collected responses, the dispatcher's own catch
\* block) ends in status 500 with one fixed Error Envelope (id null, code
\* internal error, message "Internal server error"); every 500 has this same
\* body, so no exception text reaches the client.
C11_EscapedFailureFixed500 ==
  /\ (Done /\ FailureEscaped)
     => /\ httpResponse.statusCode = 500
        /\ ResponseJson.ok
        /\ ResponseJson.v = FixedInternalError
  /\ (Done /\ httpResponse.statusCode = 500)
     => /\ FailureEscaped
        /\ ResponseJson.ok
        /\ ResponseJson.v = FixedInternalError

\* the serialization of the responses of a two-element batch failed
C11_Witness ==
  /\ Done
  /\ httpResponse.statusCode = 500
  /\ Len(responses) = 2
  /\ Len(answers) = 2
  /\ ~CanStringify(Arr(responses))

\* a provider threw a value the dispatcher's log line cannot print
C11_WitnessLog ==
  /\ Done
  /\ httpResponse.statusCode = 500
  /\ answers # <<>>
  /\ LogThrows(answers[Len(answers)])

\* C12: the response body has the shape of the request body: it is an array
\* if and only if the parsed request body is an array, and then of the same
\* length (one element for one element, none for none); a parsed body that
\* is not an array (an object, null, a number) gets one envelope that is not
\* an array.
C12_ResponseMirrorsShape ==
  (Done /\ Accepted)
  => /\ ResponseJson.ok
     /\ (ResponseJson.v.t = "arr") <=> (parsedBody.t = "arr")
     /\ IF parsedBody.t = "arr"
          THEN Len(ResponseJson.v.v) = Len(parsedBody.v)
          ELSE /\ ResponseJson.v.t = "obj"
               /\ OneOfResultError(ResponseJson.v)

\* a one-element array was answered with a one-element array
C12_Witness ==
  /\ Done
  /\ Accepted
  /\ parsedBody.t = "arr"
  /\ Len(parsedBody.v) = 1
  /\ ResponseJson.v.t = "arr"
  /\ Len(ResponseJson.v.v) = 1

\* an empty array was answered with an empty array
C12_WitnessEmpty ==
  /\ Done
  /\ Accepted
  /\ parsedBody = Arr(<<>>)
  /\ httpResponse.body = <<LB, RB>>

\* a body that is the number 42 was answered with one envelope
C12_WitnessPrimitive ==
  /\ Done
  /\ Accepted
  /\ parsedBody = Num(42)
  /\ ResponseJson.v.t = "obj"

\* the statuses the handler answers with
Statuses == {200, 401, 405, 415, 400, 500}

\* C13: every HTTP response the handler returns, on every path (200, 401,
\* 405, 415, 400, 500 and the 200 of OPTIONS), has the header
\* Access-Control-Allow-Origin with value *.
C13_AllowOriginOnEveryResponse ==
  Done => /\ httpResponse.statusCode \in Statuses
          /\ HeaderIs("Access-Control-Allow-Origin", <<"*">>)

\* a 500 was returned, with the header
C13_Witness ==
  /\ Done
  /\ httpResponse.statusCode = 500
  /\ HeaderIs("Access-Control-Allow-Origin", <<"*">>)

\* the names of the tools DogFactsServer declares in tools/list
DeclaredTools ==
  LET tools == Get(ToolsListResult, "tools").v
  IN { Get(tools[i], "name").v : i \in 1..Len(tools) }

\* a tools/call envelope that names a tool DogFactsServer does not declare
NamesUnknownTool(request) ==
  IF Qualifies(request) /\ Get(request, "method") = Str("tools/call")
     /\ Get(request, "params").t = "obj"
    THEN /\ Get(Get(request, "params"), "name").t = "str"
         /\ Get(Get(request, "params"), "name").v \notin DeclaredTools
    ELSE FALSE

\* the calls made so far that name a declared tool
DeclaredToolCalls ==
  { i \in 1..Len(calls) :
      IF calls[i].op = "callTool" /\ calls[i].params.t = "obj"
        THEN /\ Get(calls[i].params, "name").t = "str"
             /\ Get(calls[i].params, "name").v \in DeclaredTools
        ELSE FALSE }

\* C14: with DogFactsServer, a tools/call envelope naming a tool the
\* provider does not declare gets an Error Envelope with the id of the
\* request, the internal-error code and a message with the unknown name;
\* the provider fails without an outbound call: the upstream requests sent
\* are those of the calls that name a declared tool.
C14_UnknownToolFailsLocally ==
  server = "DogFactsServer"
  => /\ \A i \in 1..Len(responses) :
          NamesUnknownTool(requests[i])
          => /\ IsErrorWith(responses[i], InternalError)
             /\ Get(responses[i], "id") = Get(requests[i], "id")
             /\ Get(Get(responses[i], "error"), "message") =
                  Str("Unknown tool: "
                      \o Get(Get(requests[i], "params"), "name").v)
     /\ Len(fetches) = Cardinality(DeclaredToolCalls)
     /\ (Done /\ Accepted /\ parsedBody.t # "arr"
         /\ NamesUnknownTool(parsedBody))
        => /\ httpResponse.statusCode = 200
           /\ ResponseJson.v = responses[1]
           /\ fetches = <<>>

\* a call of doesNotExist was answered after a call of getDogFacts in the
\* same batch
C14_Witness ==
  /\ server = "DogFactsServer"
  /\ Done
  /\ Len(responses) = 2
  /\ NamesUnknownTool(requests[2])
  /\ calls[1].op = "callTool"
  /\ Len(fetches) = 1
  /\ Get(Get(responses[2], "error"), "message") =
       Str("Unknown tool: doesNotExist")

\* element i of the request as the client wrote it in the body
RawElement(i) ==
  LET sent == JSONparse(event.body.v).v
  IN IF sent.t = "arr" THEN sent.v[i] ELSE sent

RECURSIVE ParamsAsked(_)
\* the params of the tools/call envelopes among the first n elements sent
ParamsAsked(n) ==
  IF n = 0 THEN <<>>
  ELSE LET element == RawElement(n)
       IN ParamsAsked(n - 1) \o
          (IF Qualifies(element) /\ Get(element, "method") = Str("tools/call")
             THEN <<Get(element, "params")>>
             ELSE <<>>)

RECURSIVE ParamsReceived(_)
\* the params callTool was invoked with in the first n provider calls
ParamsReceived(n) ==
  IF n = 0 THEN <<>>
  ELSE ParamsReceived(n - 1) \o
       (IF calls[n].op = "callTool" THEN <<calls[n].params>> ELSE <<>>)

\* C15: for every tools/call envelope the params that callTool of the
\* provider receives are the params written in the request: name and
\* arguments with the limit as requested, not clamped, defaulted or changed
\* in any other way by the gateway and the dispatcher.
C15_ParamsPassedUnmodified ==
  Accepted
  => ParamsReceived(Len(calls)) =
       ParamsAsked(IF pc = "await" THEN idx ELSE idx - 1)

\* DogFactsServer was invoked with the requested limit of 100 and asked
\* upstream for 10
C15_Witness ==
  /\ pc = "await"
  /\ server = "DogFactsServer"
  /\ RequestedLimit(Get(RawElement(idx), "params")) = Num(100)
  /\ calls[Len(calls)].params =
       Obj([name |-> Str("getDogFacts"),
            arguments |-> Obj([limit |-> Num(100)])])
  /\ fetches[Len(fetches)] = 10

IsGetDogFacts(call) ==
  IF call.op = "callTool" /\ call.params.t = "obj"
    THEN Get(call.params, "name") = Str("getDogFacts")
    ELSE FALSE

\* the getDogFacts invocations so far, in order
GetDogFactsCalls == SelectSeq(calls, IsGetDogFacts)

\* C16: with DogFactsServer, for every getDogFacts invocation, with a
\* requested limit that is negative, zero, in range or above the maximum, or
\* with no limit, the limit sent upstream is in 1..10, and a requested limit
\* that already is in 1..10 is sent as requested.
C16_UpstreamLimitInRange ==
  server = "DogFactsServer"
  => /\ Len(fetches) = Len(GetDogFactsCalls)
     /\ \A k \in 1..Len(fetches) :
          LET asked == RequestedLimit(GetDogFactsCalls[k].params)
          IN /\ fetches[k] \in 1..10
             /\ (asked.t = "num" /\ asked.v \in 1..10)
                => fetches[k] = asked.v

\* a limit of 100 was asked for and 10 was sent
C16_Witness ==
  /\ server = "DogFactsServer"
  /\ Len(fetches) = 1
  /\ RequestedLimit(GetDogFactsCalls[1].params) = Num(100)
  /\ fetches[1] = 10

\* zero was asked for and five was sent
C16_WitnessZero ==
  /\ server = "DogFactsServer"
  /\ Len(fetches) = 1
  /\ RequestedLimit(GetDogFactsCalls[1].params) = Num(0)
  /\ fetches[1] = 5

\* no limit was asked for and five was sent
C16_WitnessNoLimit ==
  /\ server = "DogFactsServer"
  /\ Len(fetches) = 1
  /\ RequestedLimit(GetDogFactsCalls[1].params) = Undefined
  /\ fetches[1] = 5

\* a negative limit was asked for and one was sent
C16_WitnessNegative ==
  /\ server = "DogFactsServer"
  /\ Len(fetches) = 1
  /\ RequestedLimit(GetDogFactsCalls[1].params) = Num(0 - 1)
  /\ fetches[1] = 1

\* the positions answered so far whose request is a tools/list envelope
ListPositions ==
  { i \in 1..Len(responses) :
      Qualifies(requests[i]) /\ Get(requests[i], "method") = Str("tools/list") }

\* C17: with DogFactsServer, tools/list repeated any number of times within
\* the lifetime of an instance, between initialize, tool calls, failing
\* calls and malformed elements, always returns the same Tool Descriptor
\* set: one result has been seen at most, and every tools/list envelope is
\* answered with it.
C17_ListToolsSameEveryTime ==
  server = "DogFactsServer"
  => /\ Cardinality(toolsSeen) <= 1
     /\ \A i \in ListPositions :
          /\ Has(responses[i], "result")
          /\ toolsSeen = {Get(responses[i], "result")}
          /\ Get(Get(responses[i], "result"), "tools").v # <<>>

\* in a second invocation tools/list was answered after a failing tool call
\* with the result seen before
C17_Witness ==
  /\ server = "DogFactsServer"
  /\ served = 1
  /\ Done
  /\ Len(answers) = 2
  /\ answers[1].k = "throw"
  /\ ListPositions = {2}
  /\ toolsSeen = {ToolsListResult}

\* tools/list was answered twice in one batch
C17_WitnessTwice ==
  /\ server = "DogFactsServer"
  /\ Done
  /\ ListPositions = {1, 2}

\* C18: for every validated envelope and every behaviour of the provider (it
\* returns, throws before returning, or rejects later, with an Error or
\* with another value) handleMcpRequest completes with exactly one Result
\* or Error Envelope and lets no exception reach its caller: every
\* validated element the provider has answered has its envelope in
\* responses.
C18_DispatcherNeverThrows ==
  \A i \in 1..Len(answers) :
    Qualifies(requests[i])
    => /\ i <= Len(responses)
       /\ OneOfResultError(responses[i])
       /\ Get(responses[i], "id") = Get(requests[i], "id")

\* the same statement for what the provider throws when the log line of the
\* catch block can print it: an Error or a value with a string conversion,
\* thrown before or after the call returns
C18_PrintableFailuresCaught ==
  \A i \in 1..Len(answers) :
    (/\ Qualifies(requests[i])
     /\ answers[i].k = "throw"
     /\ answers[i].e.printable)
    => /\ i <= Len(responses)
       /\ IsErrorWith(responses[i], InternalError)
       /\ Get(responses[i], "id") = Get(requests[i], "id")

\* the envelope for one element, from the element and the answer of the
\* provider to it and from nothing else
EnvelopeFrom(element, answer) ==
  IF ~Qualifies(element) \/ Get(element, "jsonrpc") # Str("2.0")
    THEN Obj([jsonrpc |-> Str("2.0"),
              error |-> Obj([code |-> Num(0 - 32600),
                             message |-> Str("Invalid JSON-RPC request")]),
              id |-> Null])
  ELSE IF answer = NoAnswer
    THEN Obj([jsonrpc |-> Str("2.0"), id |-> Get(element, "id"),
              error |-> Obj([code |-> Num(0 - 32603),
                             message |-> Str("Unknown method: "
                                             \o Get(element, "method").v)])])
  ELSE IF answer.k = "return"
    THEN Obj([jsonrpc |-> Str("2.0"), id |-> Get(element, "id"),
              result |-> answer.v])
  ELSE Obj([jsonrpc |-> Str("2.0"), id |-> Get(element, "id"),
            error |-> Obj([code |-> Num(0 - 32603),
                           message |-> Str(IF answer.e.isError
                                             THEN answer.e.message
                                             ELSE "Internal failure")])])

C19_WitnessMalformed ==
  /\ Done
  /\ Accepted
  /\ parsedBody.t = "arr"
  /\ Len(answers) = 2
  /\ ~Qualifies(requests[1])
  /\ answers[2].k = "return"
  /\ Has(ResponseJson.v.v[2], "result")

\* the response is an Error Envelope with id null, this code and this
\* message, sent with this status
ErrorIs(status, code, message) ==
  /\ TransportError(status, code)
  /\ Get(Get(ResponseJson.v, "error"), "message") = Str(message)

\* the body of the event is missing, empty or not JSON
BodyUnusable ==
  IF event.body = Null THEN TRUE
  ELSE IF event.body.v = <<>> THEN TRUE
  ELSE ~JSONparse(event.body.v).ok

\* the answers of the provider leave the dispatcher or cannot be written
AnswersEscape ==
  \/ \E i \in 1..Len(answers) : LogThrows(answers[i])
  \/ \E i \in 1..Len(answers) :
       IF answers[i] # NoAnswer /\ answers[i].k = "return"
         THEN ~CanStringify(answers[i].v) ELSE FALSE

\* the envelopes for the request of the event and the answers given to it
AnswerFor ==
  LET sent == JSONparse(event.body.v).v
  IN IF sent.t = "arr"
       THEN Arr([i \in 1..Len(sent.v) |->
                   EnvelopeFrom(sent.v[i], answers[i])])
       ELSE EnvelopeFrom(sent, answers[1])

\* C20: the gateway is stateless across requests: in the first invocation
\* of an instance and in every later one, whatever the invocations before
\* were (answered, failed, malformed, ended in 500), the response is the
\* same function of the request and of the answers of the provider to it.
C20_ResponseFromRequestAlone ==
  Done
  => IF event.httpMethod = "OPTIONS"
       THEN httpResponse.statusCode = 200 /\ httpResponse.body = <<>>
     ELSE IF event.httpMethod = "GET"
       THEN /\ httpResponse.statusCode = 401
            /\ ResponseJson.ok
            /\ ResponseJson.v =
                 Obj([error |-> Str("invalid_request"),
                      error_description |-> Str("Authentication required")])
     ELSE IF event.httpMethod # "POST"
       THEN ErrorIs(405, 0 - 32600, "Method Not Allowed")
     ELSE IF ~JsonUnderLookedUpKey
       THEN ErrorIs(415, 0 - 32600, "Content-Type must be application/json")
     ELSE IF BodyUnusable
       THEN ErrorIs(400, 0 - 32700,
                    IF event.body = Null THEN "Empty request body"
                    ELSE IF event.body.v = <<>> THEN "Empty request body"
                    ELSE "Invalid JSON")
     ELSE IF AnswersEscape
       THEN ErrorIs(500, 0 - 32603, "Internal server error")
     ELSE /\ httpResponse.statusCode = 200
          /\ ResponseJson.ok
          /\ ResponseJson.v = AnswerFor

\* the second invocation of an instance answered a request without
\* tools/list, after an invocation that answered tools/list
C20_Witness ==
  /\ served = 1
  /\ Done
  /\ Accepted
  /\ httpResponse.statusCode = 200
  /\ Len(answers) = 2
  /\ ListPositions = {}
  /\ toolsSeen # {}
  /\ ResponseJson.v = AnswerFor

\* the second invocation of an instance ended in a 500
C20_WitnessAfter500 ==
  /\ served = 1
  /\ Done
  /\ httpResponse.statusCode = 500

\* the invocation is over: the promise of the handler resolved or rejected
Ended == pc \in {"done", "rejected"}

\* C21: when emitting the debug log of the inbound event fails, the handler
\* still returns an HTTP response, the one it returns when logging
\* succeeds: every invocation that is over has a response with a status,
\* 200 for OPTIONS and 401 for GET.
C21_LogFailureKeepsResponse ==
  Ended
  => /\ httpResponse # NoResponse
     /\ httpResponse.statusCode \in Statuses
     /\ event.httpMethod = "OPTIONS" => httpResponse.statusCode = 200
     /\ event.httpMethod = "GET" => httpResponse.statusCode = 401

\* the handler is between the parse of the body and its return
Running == pc \in {"loop", "await"}

\* C22: for every request with a finite batch, when every provider
\* operation returns or fails, the handler completes with exactly one HTTP
\* response: a running invocation ends; there is no response before it ends
\* and there is one when it has ended; the response of an ended invocation
\* is not replaced.
C22_ExactlyOneResponse ==
  /\ Running ~> Done
  /\ [](Running => httpResponse = NoResponse)
  /\ [](Done => httpResponse # NoResponse)
  /\ [][Done => (httpResponse' = httpResponse \/ pc' = "idle")]_vars

\* a batch of two tool calls was answered
C22_Witness ==
  /\ Done
  /\ Len(requests) = 2
  /\ Len(calls) = 2
  /\ calls[1].op = "callTool"
  /\ calls[2].op = "callTool"
  /\ httpResponse.statusCode = 200

\* the transport checks in their order; each says on its own whether it
\* applies to the event
CheckApplies(i) ==
  CASE i = 1 -> event.httpMethod = "OPTIONS"
    [] i = 2 -> event.httpMethod = "GET"
    [] i = 3 -> event.httpMethod # "POST"
    [] i = 4 -> ~JsonUnderLookedUpKey
    [] i = 5 -> IF event.body = Null THEN TRUE ELSE event.body.v = <<>>
    [] OTHER -> IF event.body = Null THEN TRUE
                ELSE ~JSONparse(event.body.v).ok

\* the status each check answers with
CheckStatus == <<200, 401, 405, 415, 400, 400>>

ChecksApplying == { i \in 1..6 : CheckApplies(i) }

FirstCheck == CHOOSE i \in ChecksApplying : \A j \in ChecksApplying : i <= j

\* C23: the transport checks are applied in the order OPTIONS, GET, verb
\* not POST, content type, body presence, body parse, and the first check
\* that applies decides the response: a POST with a content type that is not
\* JSON gets 415 also when its body is empty or unparseable, a POST with a
\* JSON content type and an empty body gets the 400 of the empty body, and
\* OPTIONS, GET and other verbs never get 415 or 400.
C23_FirstCheckDecides ==
  Done
  => /\ IF ChecksApplying = {}
          THEN httpResponse.statusCode \in {200, 500}
          ELSE httpResponse.statusCode = CheckStatus[FirstCheck]
     /\ (event.httpMethod = "POST" /\ ~JsonUnderLookedUpKey)
        => httpResponse.statusCode = 415
     /\ (event.httpMethod = "POST" /\ JsonUnderLookedUpKey /\ CheckApplies(5))
        => ErrorIs(400, 0 - 32700, "Empty request body")
     /\ event.httpMethod # "POST"
        => httpResponse.statusCode \notin {415, 400}
     /\ ChecksApplying # {} => parsedBody = Undefined /\ NoProviderCall

\* a POST with content type text/plain and a body that is not JSON got 415
C23_Witness ==
  /\ Done
  /\ event.httpMethod = "POST"
  /\ ChecksApplying = {4, 6}
  /\ event.body = Str(<<Garbage>>)
  /\ httpResponse.statusCode = 415

\* a PUT with content type text/plain and no body got 405
C23_WitnessVerb ==
  /\ Done
  /\ event.httpMethod = "PUT"
  /\ ChecksApplying = {3, 4, 5, 6}
  /\ httpResponse.statusCode = 405

\* the provider operation the routing table selects for a method
SelectedOperation(method) ==
  CASE method = "initialize" -> "initialize"
    [] method = "tools/list" -> "listTools"
    [] method = "tools/call" -> "callTool"
    [] OTHER -> "none"

\* element i is a validated envelope with a method of the routing table
Routed(i) ==
  IF Qualifies(requests[i]) /\ Get(requests[i], "jsonrpc") = Str("2.0")
    THEN SelectedOperation(Get(requests[i], "method").v) # "none"
    ELSE FALSE

\* the routed elements among the first i
RoutedUpTo(i) == Cardinality({ j \in 1..i : Routed(j) })

\* the elements the dispatcher has been entered for
Dispatched == Len(answers) + (IF pc = "await" THEN 1 ELSE 0)

\* C24: for every validated envelope the dispatcher invokes the provider
\* operation its method selects (initialize, tools/list, tools/call), once,
\* also when the operation fails, and wraps the returned value unchanged as
\* result; for any other method it invokes no provider operation.
C24_RoutedOnceAndWrapped ==
  /\ Len(calls) = RoutedUpTo(Dispatched)
  /\ \A i \in 1..Dispatched :
       Routed(i)
       => calls[RoutedUpTo(i)].op =
            SelectedOperation(Get(requests[i], "method").v)
  /\ \A i \in 1..Len(answers) : ~Routed(i) => answers[i] = NoAnswer
  /\ \A i \in 1..Len(responses) :
       IF Routed(i) /\ answers[i].k = "return"
         THEN /\ Has(responses[i], "result")
              /\ ~Has(responses[i], "error")
              /\ Get(responses[i], "result") = answers[i].v
         ELSE ~Has(responses[i], "result")

\* a batch of a tool call that failed and a tools/list that returned: two
\* provider operations in all
C24_Witness ==
  /\ Done
  /\ Len(answers) = 2
  /\ Len(responses) = 2
  /\ answers[1].k = "throw"
  /\ answers[2].k = "return"
  /\ Len(calls) = 2
  /\ calls[1].op = "callTool"
  /\ calls[2].op = "listTools"
  /\ Get(responses[2], "result") = answers[2].v

\* element i is a validated envelope whose method is not in the routing
\* table
UnknownMethodAt(i) ==
  IF Qualifies(requests[i]) /\ Get(requests[i], "jsonrpc") = Str("2.0")
    THEN Get(requests[i], "method").v
           \notin {"initialize", "tools/list", "tools/call"}
    ELSE FALSE

\* C25: a structurally valid envelope whose method is none of initialize,
\* tools/list, tools/call gets an Error Envelope with the id of the request,
\* the internal-error code -32603 (not the method-not-found code -32601)
\* and the message "Unknown method: " followed by the method.
C25_UnknownMethodInternalError ==
  /\ \A i \in 1..Len(responses) :
       UnknownMethodAt(i)
       => /\ ~Has(responses[i], "result")
          /\ Get(responses[i], "id") = Get(requests[i], "id")
          /\ Get(responses[i], "error") =
               Obj([code |-> Num(0 - 32603),
                    message |-> Str("Unknown method: "
                                    \o Get(requests[i], "method").v)])
  /\ (Done /\ Accepted /\ parsedBody.t # "arr" /\ UnknownMethodAt(1))
     => /\ httpResponse.statusCode = 200
        /\ Get(ResponseJson.v, "id") = Get(parsedBody, "id")
        /\ Get(Get(ResponseJson.v, "error"), "code") = Num(0 - 32603)

\* a ping with id "a" was answered
C25_Witness ==
  /\ Done
  /\ Accepted
  /\ parsedBody.t # "arr"
  /\ UnknownMethodAt(1)
  /\ Get(ResponseJson.v, "id") = Str("a")
  /\ Get(Get(ResponseJson.v, "error"), "message") = Str("Unknown method: ping")

\* the text a failure describes itself with: the message of an Error, the
\* text of a thrown string; none when that is empty
Description(e) == e.message
HasDescription(e) == e.message # ""

\* C26: when a provider operation fails (an upstream network failure and a
\* non-OK upstream status included) the Error Envelope has the
\* internal-error code and the description of the failure as its message;
\* the generic message "Internal failure" is used only for a failure
\* without a description.
C26_MessageIsDescription ==
  \A i \in 1..Len(responses) :
    (answers[i] # NoAnswer /\ answers[i].k = "throw")
    => /\ IsErrorWith(responses[i], InternalError)
       /\ HasDescription(answers[i].e)
          => Get(Get(responses[i], "error"), "message") =
               Str(Description(answers[i].e))
       /\ Get(Get(responses[i], "error"), "message") = Str("Internal failure")
          => ~HasDescription(answers[i].e)

\* the same for the failures that are Error instances, those of
\* DogFactsServer among them: the message of the Error is the message of the
\* envelope
C26_ErrorsKeepTheirMessage ==
  \A i \in 1..Len(responses) :
    (answers[i] # NoAnswer /\ answers[i].k = "throw" /\ answers[i].e.isError)
    => /\ IsErrorWith(responses[i], InternalError)
       /\ Get(Get(responses[i], "error"), "message") = Str(answers[i].e.message)

\* DogFactsServer got status 500 from upstream and the envelope says so
C26_UpstreamStatusReported ==
  /\ server = "DogFactsServer"
  /\ Done
  /\ Len(responses) = 1
  /\ answers[1] = Thrown(Err("HTTP error! status: 500"))
  /\ Get(Get(responses[1], "error"), "message") =
       Str("HTTP error! status: 500")

\* the limit the claim expects upstream for a requested limit
ExpectedLimit(asked) ==
  IF asked.t # "num" THEN 5
  ELSE IF asked.v < 1 THEN 1
  ELSE IF asked.v > 10 THEN 10
  ELSE asked.v

\* C27: for getDogFacts the default limit 5 is used exactly when no limit
\* is supplied; a supplied limit below the declared minimum 1, zero or
\* negative, is raised to 1, and a supplied limit above 10 is lowered to 10.
C27_DefaultOnlyWithoutLimit ==
  server = "DogFactsServer"
  => \A k \in 1..Len(fetches) :
       fetches[k] = ExpectedLimit(RequestedLimit(GetDogFactsCalls[k].params))

\* the same for every requested limit but zero
C27_ExceptZero ==
  server = "DogFactsServer"
  => \A k \in 1..Len(fetches) :
       RequestedLimit(GetDogFactsCalls[k].params) # Num(0)
       => fetches[k] =
            ExpectedLimit(RequestedLimit(GetDogFactsCalls[k].params))

\* the provider operations that have settled
Settled == Cardinality({ i \in 1..Len(answers) : answers[i] # NoAnswer })

\* the provider operations invoked and not settled
InFlight == Len(calls) - Settled

\* the position in the batch of the k-th routed element
RoutedPosition(k) ==
  CHOOSE i \in 1..Len(requests) : Routed(i) /\ RoutedUpTo(i) = k

\* C28: within one batch the handler dispatches the elements in request
\* order and waits for the provider operation of an element before it looks
\* at the next one: at most one provider operation is in flight, all
\* elements before the one in flight are answered and none after it is
\* started, and the provider is invoked in the order of the elements.
C28_OneAtATimeInOrder ==
  /\ InFlight \in {0, 1}
  /\ (InFlight = 1) <=> (pc = "await")
  /\ pc = "await"
     => /\ Len(responses) = idx - 1
        /\ Len(answers) = idx - 1
        /\ Len(calls) = RoutedUpTo(idx)
  /\ \A k \in 1..Len(calls) :
       LET i == RoutedPosition(k)
       IN /\ i <= Dispatched
          /\ calls[k].op = SelectedOperation(Get(requests[i], "method").v)
          /\ calls[k].params =
               (IF calls[k].op = "callTool"
                  THEN Get(requests[i], "params")
                  ELSE Undefined)

\* the second tool call of a batch is in flight and the first is answered
C28_Witness ==
  /\ pc = "await"
  /\ idx = 2
  /\ Len(calls) = 2
  /\ calls[1].op = "callTool"
  /\ Len(responses) = 1
  /\ InFlight = 1

\* C29: every POST that passes the transport checks (JSON content type, a
\* body that is not empty and parses) and raises no uncaught failure gets
\* status 200 with a JSON body, also when every element of the request
\* gets an Error Envelope (malformed element, unknown method, unknown tool,
\* provider failure): failures of elements do not change the HTTP status.
C29_ElementFailuresKeep200 ==
  (Done /\ ChecksApplying = {} /\ ~AnswersEscape)
  => /\ httpResponse.statusCode = 200
     /\ HeaderIs("Content-Type", <<"application/json">>)
     /\ ResponseJson.ok
     /\ \A env \in EnvelopesOf(ResponseJson.v) : env.t = "obj"

\* a batch of a malformed element and an unknown tool, both answered with
\* errors, got 200
C29_Witness ==
  /\ server = "DogFactsServer"
  /\ Done
  /\ ChecksApplying = {}
  /\ Len(requests) = 2
  /\ ~Qualifies(requests[1])
  /\ NamesUnknownTool(requests[2])
  /\ httpResponse.statusCode = 200
  /\ \A env \in EnvelopesOf(ResponseJson.v) : Has(env, "error")

\* an unknown method and an upstream failure, both answered with errors,
\* got 200
C29_WitnessFailures ==
  /\ server = "DogFactsServer"
  /\ Done
  /\ Len(requests) = 2
  /\ answers[1] = Thrown(Err("fetch failed"))
  /\ UnknownMethodAt(2)
  /\ httpResponse.statusCode = 200

\* C30: the modular gateway (createApiGatewayHandler with DogFactsServer,
\* dispatching through handleMcpRequest(request, server)) and the earlier
\* handler with the dog-facts logic inline are observationally equivalent:
\* for every request and every answer of the upstream API both return the
\* same status, headers and body, and they send the same requests upstream.
C30_ModularEqualsMonolith ==
  (server = "DogFactsServer" /\ Done)
  => /\ httpResponse = MonolithHandler(event, upstream)
     /\ Len(upstream) = Len(fetches)
     /\ Accepted => fetches = MonolithLimits(requests, 1)

\* a batch of a getDogFacts call answered with one fact and a call of an
\* unknown tool
C30_Witness ==
  /\ server = "DogFactsServer"
  /\ Done
  /\ Accepted
  /\ Len(requests) = 2
  /\ upstream = <<[k |-> "facts", n |-> 1]>>
  /\ NamesUnknownTool(requests[2])
  /\ httpResponse.statusCode = 200
  /\ httpResponse = MonolithHandler(event, upstream)

\* a tools/call without params, answered by both with the error of the
\* destructuring
C30_WitnessNoParams ==
  /\ server = "DogFactsServer"
  /\ Done
  /\ Accepted
  /\ Len(requests) = 1
  /\ isJSONRPCRequest(requests[1])
  /\ Get(requests[1], "method") = Str("tools/call")
  /\ Get(requests[1], "params") = Undefined
  /\ httpResponse = MonolithHandler(event, upstream)
====
